---- MODULE Spec2Model ----
(***************************************************************************)
(* Model of the SolanaMemeTrader subscription loop (src/src/index.ts) and  *)
(* of the adapters it calls (src/src/utils/transactions.ts).               *)
(*                                                                         *)
(* One action stands for one callback of the event loop, run to            *)
(* completion: a handler of the WebSocket ("open", "message", "error",     *)
(* "close"), the reconnect timer, or the continuation of handleNewPool     *)
(* after one awaited call settles.  `trace` lists, in program order, the   *)
(* outward effects of the callback that ran last.                          *)
(***************************************************************************)
EXTENDS Integers, Sequences, FiniteSets, Bags

\* ------------------------------------------------------------------ bounds
\* Inbound messages delivered over the whole run.
MsgBudget == 2
\* Inbound messages delivered in the runs checked for liveness.
LiveBudget == 1

\* ------------------------------------------------------- program constants
NormalClosure == 1000
ReconnectDelay == 5000
HttpTimeout == 5000
NoTimeout == 0
single_holder_ownership == 30

\* Close codes the "close" event can carry: normal closure, no status
\* received (the answer to a close() without a code), abnormal closure.
NoStatus == 1005
Abnormal == 1006
CloseCodes == {NormalClosure, NoStatus, Abnormal}

\* ------------------------------------------------------------- JS values
\* A string is the sequence of its characters.
Str(t) == [t |-> "string", s |-> t]
Num(t) == [t |-> "number", s |-> t]

Marker == <<"P","r","o","g","r","a","m"," ","l","o","g",":"," ","i","n","i","t","i","a","l","i","z","e","2",":"," ","I","n","i","t","i","a","l","i","z","e","I","n","s","t","r","u","c","t","i","o","n","2">>
MarkerLower == <<"p","r","o","g","r","a","m"," ","l","o","g",":"," ","i","n","i","t","i","a","l","i","z","e","2",":"," ","i","n","i","t","i","a","l","i","z","e","i","n","s","t","r","u","c","t","i","o","n","2">>
MarkerCut == SubSeq(Marker, 1, Len(Marker) - 1)

\* String.prototype.includes: needle occurs as a contiguous run of hay.
Includes(hay, needle) ==
    \E i \in 0..(Len(hay) - Len(needle)) :
        SubSeq(hay, i + 1, i + Len(needle)) = needle

\* String.prototype.endsWith.
EndsWith(hay, suffix) ==
    /\ Len(hay) >= Len(suffix)
    /\ SubSeq(hay, Len(hay) - Len(suffix) + 1, Len(hay)) = suffix

UpperToLower == [c \in {"P","U","M","F","O","A","B","C","X"} |->
    CASE c = "P" -> "p" [] c = "U" -> "u" [] c = "M" -> "m"
      [] c = "F" -> "f" [] c = "O" -> "o" [] c = "A" -> "a"
      [] c = "B" -> "b" [] c = "C" -> "c" [] c = "X" -> "x"]

\* String.prototype.toLowerCase.
ToLowerCase(str) ==
    [i \in 1..Len(str) |->
        IF str[i] \in DOMAIN UpperToLower THEN UpperToLower[str[i]] ELSE str[i]]

\* ------------------------------------------------------- inbound messages
\* A frame: `json` tells whether JSON.parse accepts the text; `logs` and
\* `signature` are what the optional chain params?.result?.value?.x yields
\* (undefined for a text that is no JSON at all).
Undefined == [t |-> "undefined", a |-> <<>>]
Arr(elems) == [t |-> "array", a |-> elems]
NotArr(elem) == [t |-> "string", a |-> <<elem>>]
Sig(name) == [t |-> "string", v |-> name]
NoSig == [t |-> "undefined", v |-> ""]
NumSig == [t |-> "number", v |-> "7"]

Frame(j, l, s) == [json |-> j, logs |-> l, signature |-> s]

Msgs == <<
    Frame(FALSE, Undefined, NoSig),
    Frame(TRUE, Undefined, NoSig),
    Frame(TRUE, Arr(<<Str(MarkerLower), Str(MarkerCut)>>), Sig("SIG1")),
    Frame(TRUE, Arr(<<Str(Marker)>>), Sig("SIG1")),
    Frame(TRUE, Arr(<<Str(<<"x">>), Str(<<">"," ">> \o Marker \o <<"!">>)>>), Sig("SIG2")),
    Frame(TRUE, Arr(<<Str(Marker)>>), NumSig),
    Frame(TRUE, Arr(<<Num(<<"4","2">>), Str(Marker)>>), Sig("SIG2")),
    Frame(TRUE, NotArr(Str(Marker)), Sig("SIG1")),
    Frame(TRUE, Arr(<<Str(Marker)>>), NoSig)
>>
MsgIds == 1..Len(Msgs)

\* JSON.parse(data.toString()) throws on text that is not JSON.
JSONParseThrows(m) == ~ m.json

\* index.ts:175-179, the callback given to logs.some.
\* Variant that looks for the marker without its last character.
ContainsCreateCutMut(logs) ==
    \E i \in 1..Len(logs.a) :
        logs.a[i].t = "string" /\ Includes(logs.a[i].s, MarkerCut)
\* The callback as written.
ContainsCreate(logs) ==
    \E i \in 1..Len(logs.a) :
        logs.a[i].t = "string" /\ Includes(logs.a[i].s, Marker)

\* index.ts:168-183, the filter of the message handler: TRUE when the
\* handler goes on to close the socket and process the pool.
\* Variant without the Array.isArray test.
ClassifyAnyLogsMut(m) ==
    /\ m.signature.t = "string"
    /\ ContainsCreate(m.logs)
\* The filter as written.
Classify(m) ==
    /\ m.logs.t = "array"
    /\ m.signature.t = "string"
    /\ ContainsCreate(m.logs)


\* ------------------------------------------------------------------ state
VARIABLES
    wsUrlOk,    \* static: new WebSocket(wsUrl) returns instead of throwing
    privKey,    \* static: PRIV_KEY_WALLET, "valid" or "undecodable"
    conns,      \* the WebSocket objects still referenced, a bag
    timers,     \* pending setTimeout(websocketHandler, 5000) callbacks
    budget,     \* inbound messages the peer still delivers
    trace       \* effects of the callback that ran last, in program order

vars == <<wsUrlOk, privKey, conns, timers, budget, trace>>

\* A socket: st is its readyState ("aborting", "failing": the library has
\* emitted "error", before or after the socket opened, and will emit
\* "close"); req is the code of the close() this
\* program called on it, if any; runs is the bag of handleNewPool calls
\* that its message handler is awaiting.
NoClose == 0
NewConn == [st |-> "connecting", req |-> NoClose, runs |-> EmptyBag]

\* A handleNewPool call suspended at an await: the call it awaits, whether
\* the provider of that call has gone silent, and the locals still in use.
NoMint == [t |-> "undefined", s |-> <<>>]
NewRun == [stage |-> "fetch", stalled |-> FALSE, solMint |-> NoMint, tokenMint |-> NoMint]

Eff(op, n, s, a, b) == [op |-> op, n |-> n, s |-> s, a |-> a, b |-> b]
E0(op) == Eff(op, 0, "", <<>>, <<>>)
\* What an awaited call settled with, as the continuation receives it.
EffR(op, resp) == [op |-> op, n |-> 0, s |-> "", a |-> <<>>, b |-> <<>>, resp |-> resp]

One(e) == SetToBag({e})
Conns == BagToSet(conns)
Live(c) == c.st \in {"connecting", "open"}
LiveConns == {c \in Conns : Live(c)}
NumLive == BagCardinality([c \in LiveConns |-> conns[c]])
RunsOf(c) == BagToSet(c.runs)
NumRuns == BagCardinality([c \in {d \in Conns : d.runs # EmptyBag} |->
                            conns[c] * BagCardinality(c.runs)])

\* A closed socket stays referenced while its message handler is still
\* suspended in handleNewPool; after that it is garbage.
Garbage(c) == c.st = "closed" /\ c.runs = EmptyBag
Put(cs, c) == IF Garbage(c) THEN cs ELSE cs (+) One(c)
Replace(cs, c, d) == Put(cs (-) One(c), d)

\* --------------------------------------------------------- websocketHandler
\* index.ts:138-224.  The constructor either returns a socket in the
\* CONNECTING state or throws, and then the catch arms the retry timer.
WsHandlerConns(cs) ==
    IF wsUrlOk THEN cs (+) One(NewConn) ELSE cs
WsHandlerTimers(t) ==
    IF wsUrlOk THEN t ELSE t + 1
WsHandlerTrace ==
    IF wsUrlOk
    THEN <<E0("websocketHandler"), E0("new WebSocket")>>
    ELSE <<E0("websocketHandler"), Eff("setTimeout", ReconnectDelay, "", <<>>, <<>>)>>

\* ws.close(code): starts the closing handshake of an open socket and is
\* a no-op on one that is already closing or closed.
WsClose(c, code) ==
    IF c.st = "open" THEN [c EXCEPT !.st = "closing", !.req = code] ELSE c

\* index.ts:214, the test of the close handler.
\* Variant that reconnects on 1006 only.
ShouldReconnectOnlyAbnormalMut(code) == code = Abnormal
ShouldReconnect(code) == code # NormalClosure

\* index.ts:226-230: the state after the first call of websocketHandler.
InitWith(messages) ==
    /\ wsUrlOk \in BOOLEAN
    /\ privKey \in {"valid", "undecodable"}
    /\ conns = WsHandlerConns(EmptyBag)
    /\ timers = WsHandlerTimers(0)
    /\ budget = messages
    /\ trace = WsHandlerTrace

Init == InitWith(MsgBudget)

\* The reconnect timer fires: setTimeout(websocketHandler, 5000).
TimerFires ==
    /\ timers > 0
    /\ conns' = WsHandlerConns(conns)
    /\ timers' = WsHandlerTimers(timers - 1)
    /\ trace' = <<E0("timer")>> \o WsHandlerTrace
    /\ UNCHANGED <<wsUrlOk, privKey, budget>>

\* index.ts:49-64 and 158-161: the open handler sends the subscription.
\* Variant that sends the request twice.
sendRequestTwiceMut ==
    <<Eff("send", 1, "logsSubscribe", <<>>, <<>>), Eff("send", 1, "logsSubscribe", <<>>, <<>>)>>
\* The request as written.
sendRequest == <<Eff("send", 1, "logsSubscribe", <<>>, <<>>)>>

OnOpen(c) ==
    /\ c.st = "connecting"
    /\ conns' = Replace(conns, c, [c EXCEPT !.st = "open"])
    /\ trace' = <<E0("open")>> \o sendRequest
    /\ UNCHANGED <<wsUrlOk, privKey, timers, budget>>

\* index.ts:203-208: the error handler only logs.  The ws library emits
\* "error" when the handshake or the framing fails, destroys the socket
\* and then emits "close" with an abnormal code.
OnError(c) ==
    /\ c.st \in {"connecting", "open", "closing"}
    /\ conns' = Replace(conns, c,
            [c EXCEPT !.st = IF c.st = "connecting" THEN "aborting" ELSE "failing"])
    /\ trace' = <<Eff("error", 0, c.st, <<>>, <<>>)>>
    /\ UNCHANGED <<wsUrlOk, privKey, timers, budget>>

\* index.ts:210-218: the close handler.
OnClose(c, code) ==
    /\ \/ c.st \in {"open", "closing"} /\ code \in CloseCodes
       \/ c.st \in {"aborting", "failing"} /\ code = Abnormal
    /\ conns' = Replace(conns, c, [c EXCEPT !.st = "closed"])
    /\ timers' = IF ShouldReconnect(code) THEN timers + 1 ELSE timers
    /\ trace' = <<Eff("closed", code, c.st, <<>>, <<>>)>> \o
                (IF ShouldReconnect(code)
                 THEN <<Eff("setTimeout", ReconnectDelay, "", <<>>, <<>>)>>
                 ELSE <<>>)
    /\ UNCHANGED <<wsUrlOk, privKey, budget>>

\* ----------------------------------------------------------------- config
\* config.liquidity_pool and config.rug_check.
ignore_pump_fun == TRUE
not_allowed == {"Freeze Authority still enabled", "Large Amount of LP Unlocked", "Copycat token"}
PumpSuffix == <<"p","u","m","p">>

\* --------------------------------------------------- provider responses
SolMint == Str(<<"S","o","1","1">>)
TokenPlain == Str(<<"A","B","C","x","y","z">>)
TokenPump == Str(<<"F","O","O","p","u","m","p">>)
TokenPumpUpper == Str(<<"X","P","U","M","P">>)

FetchResp(k, sol, tok) == [kind |-> k, solMint |-> sol, tokenMint |-> tok]
FetchResponses == {
    FetchResp("error", NoMint, NoMint),
    FetchResp("empty", NoMint, NoMint),
    FetchResp("data", SolMint, TokenPlain),
    FetchResp("data", SolMint, TokenPump),
    FetchResp("data", SolMint, TokenPumpUpper),
    FetchResp("data", NoMint, TokenPlain),
    FetchResp("data", SolMint, NoMint) }

RugResp(k, ok, rating, warnings) ==
    [kind |-> k, success |-> ok, rating |-> rating, warnings |-> warnings]
RugResponses == {
    RugResp("error", FALSE, 0, {}),
    RugResp("nodata", FALSE, 0, {}),
    RugResp("data", FALSE, 5, {}),
    RugResp("data", TRUE, 5, {}),
    RugResp("data", TRUE, single_holder_ownership, {}),
    RugResp("data", TRUE, single_holder_ownership + 1, {}),
    RugResp("data", TRUE, 5, {"Copycat token"}),
    RugResp("data", TRUE, 5, {"Mutable metadata"}) }

\* The answers of the remaining calls, by the stage that awaits them.
Answers(stage) ==
    CASE stage = "quote" -> {"error", "nodata", "data"}
      [] stage = "swap" -> {"error", "notx", "badtx", "tx"}
      [] stage = "blockhash" -> {"error", "ok"}
      [] stage = "send" -> {"error", "txid"}
      [] stage = "confirm" -> {"error", "err", "ok"}
      [] OTHER -> {}

\* ---------------------------------------------------------------- adapters
\* transactions.ts:14-34.  The result: null, or the two mints of data[0].
Details(isNull, sol, tok) == [null |-> isNull, solMint |-> sol, tokenMint |-> tok]
fetchTransactionDetails(resp) ==
    IF resp.kind = "data"
    THEN Details(FALSE, resp.solMint, resp.tokenMint)
    ELSE Details(TRUE, NoMint, NoMint)

\* transactions.ts:131-165.
\* Variant without the test of the warnings.
getRugCheckConfirmedNoWarningsMut(resp) ==
    /\ resp.kind = "data"
    /\ resp.success
    /\ ~ (resp.rating > single_holder_ownership)
\* Variant that rejects a rating equal to the ceiling.
getRugCheckConfirmedAtCeilingMut(resp) ==
    /\ resp.kind = "data"
    /\ resp.success
    /\ resp.warnings \cap not_allowed = {}
    /\ ~ (resp.rating >= single_holder_ownership)
\* The check as written.
getRugCheckConfirmed(resp) ==
    /\ resp.kind = "data"
    /\ resp.success
    /\ resp.warnings \cap not_allowed = {}
    /\ ~ (resp.rating > single_holder_ownership)

\* The timeout each awaited call is given, in ms; 0 where the call is made
\* without one (axios then waits without limit).
\*   fetch     transactions.ts:18    axios.get(url)
\*   rug       transactions.ts:133   axios.get(url)
\*   quote     transactions.ts:51-59 timeout: 5000
\*   swap      transactions.ts:67-89 timeout: 5000
\*   blockhash, send, confirm: transactions.ts:105-118, no option given
CallTimeout(stage) ==
    IF stage \in {"quote", "swap"} THEN HttpTimeout ELSE NoTimeout

\* --------------------------------------------------------- handleNewPool
\* A step of handleNewPool runs from one await to the next: it either
\* awaits the next call or ends the run with an outcome.
Await(run, stage, effs) ==
    [kind |-> "await", run |-> [run EXCEPT !.stage = stage, !.stalled = FALSE],
     outcome |-> "", threw |-> FALSE, effs |-> effs]
Done(run, outcome, threw, effs) ==
    [kind |-> "done", run |-> run, outcome |-> outcome, threw |-> threw, effs |-> effs]

\* A step that starts with the effects `pre`.
Heard(pre, res) == [res EXCEPT !.effs = pre \o @]

\* What an adapter hands back to handleNewPool: a value, or an exception.
Returns(adapter, value) == Eff("return", 0, value, <<adapter>>, <<>>)
Throws(adapter) == Eff("throw", 0, "", <<adapter>>, <<>>)

\* index.ts:86, the truthiness test of a mint.
\* Variant that takes only the empty string for absent.
FalsyOnlyEmptyMut(v) == v.t = "string" /\ v.s = <<>>
\* The test as written.
Falsy(v) == v.t = "undefined" \/ (v.t = "string" /\ v.s = <<>>)

\* index.ts:98-99.
\* Variant that compares the suffix without lowering the case first.
IsIgnoredPumpCaseMut(tok) ==
    EndsWith(tok.s, PumpSuffix) /\ ignore_pump_fun
IsIgnoredPump(tok) ==
    EndsWith(ToLowerCase(tok.s), PumpSuffix) /\ ignore_pump_fun

\* transactions.ts:36-59: createSwapTransactions up to its first await.
\* Variant called with (tokenMint, solMint).
SwapStartSwappedMut(run) ==
    LET call == Eff("createSwapTransactions", 0, "", run.tokenMint.s, run.solMint.s) IN
    CASE privKey = "" ->
            Done(run, "swap_failed", FALSE, <<call, Returns("createSwapTransactions", "null")>>)
      [] privKey = "undecodable" ->
            Done(run, "exception", TRUE, <<call, Throws("createSwapTransactions")>>)
      [] OTHER -> Await(run, "quote", <<call, E0("quote")>>)
\* The call as written.
SwapStart(run) ==
    LET call == Eff("createSwapTransactions", 0, "", run.solMint.s, run.tokenMint.s) IN
    CASE privKey = "" ->
            Done(run, "swap_failed", FALSE, <<call, Returns("createSwapTransactions", "null")>>)
      [] privKey = "undecodable" ->
            Done(run, "exception", TRUE, <<call, Throws("createSwapTransactions")>>)
      [] OTHER -> Await(run, "quote", <<call, E0("quote")>>)

\* index.ts:73-110: from the result of the fetch to the risk check.
AfterFetch(run, d) ==
    CASE d.null -> Done(run, "fetch_failed", FALSE, <<>>)
      [] ~ d.null /\ (Falsy(d.solMint) \/ Falsy(d.tokenMint)) ->
            Done(run, "missing_mints", FALSE, <<>>)
      [] ~ d.null /\ ~ (Falsy(d.solMint) \/ Falsy(d.tokenMint))
            /\ IsIgnoredPump(d.tokenMint) ->
            Done(run, "pump_skipped", FALSE, <<>>)
      [] OTHER ->
            Await([run EXCEPT !.solMint = d.solMint, !.tokenMint = d.tokenMint], "rug",
                  <<Eff("getRugCheckConfirmed", 0, "", d.tokenMint.s, <<>>)>>)

\* index.ts:110-123.
AfterRug(run, passed) ==
    IF ~ passed THEN Done(run, "rug_failed", FALSE, <<>>) ELSE SwapStart(run)

\* transactions.ts:61-128: createSwapTransactions after each of its awaits;
\* every failure inside its try block ends in `return null`.
\* Variant without the test of quoteResponse.data.
AfterSwapCallAnyQuoteMut(run, ans) ==
    CASE run.stage = "quote" /\ ans \in {"data", "nodata"} ->
            Await(run, "swap", <<E0("swap")>>)
      [] run.stage = "swap" /\ ans = "tx" ->
            Await(run, "blockhash", <<E0("sign"), E0("getLatestBlockhash")>>)
      [] run.stage = "blockhash" /\ ans = "ok" ->
            Await(run, "send", <<E0("sendRawTransaction")>>)
      [] run.stage = "send" /\ ans = "txid" ->
            Await(run, "confirm", <<E0("confirmTransaction")>>)
      [] run.stage = "confirm" /\ ans = "ok" ->
            Done(run, "swap_ok", FALSE, <<Returns("createSwapTransactions", "url")>>)
      [] OTHER -> Done(run, "swap_failed", FALSE, <<Returns("createSwapTransactions", "null")>>)
\* The continuation as written.
AfterSwapCall(run, ans) ==
    CASE run.stage = "quote" /\ ans = "data" -> Await(run, "swap", <<E0("swap")>>)
      [] run.stage = "swap" /\ ans = "tx" ->
            Await(run, "blockhash", <<E0("sign"), E0("getLatestBlockhash")>>)
      [] run.stage = "blockhash" /\ ans = "ok" ->
            Await(run, "send", <<E0("sendRawTransaction")>>)
      [] run.stage = "send" /\ ans = "txid" ->
            Await(run, "confirm", <<E0("confirmTransaction")>>)
      [] run.stage = "confirm" /\ ans = "ok" ->
            Done(run, "swap_ok", FALSE, <<Returns("createSwapTransactions", "url")>>)
      [] OTHER -> Done(run, "swap_failed", FALSE, <<Returns("createSwapTransactions", "null")>>)

\* index.ts:131-135: the catch of handleNewPool logs and returns, so the
\* promise the message handler awaits is fulfilled whatever happened.
\* Variant without the catch: a throwing stage rejects the promise.
HandleNewPoolRejectsUncaughtMut(threw) == threw
HandleNewPoolRejects(threw) == FALSE


\* ------------------------------------------------------- message handler
\* index.ts:185-189: what the handler does with an accepted message, in
\* program order: close the socket, then call handleNewPool, which calls
\* the details fetch with the signature it was given.
\* Variant with the two statements swapped.
AcceptEffectsFetchFirstMut(signature) ==
    <<Eff("fetchTransactionDetails", 0, signature, <<>>, <<>>),
      Eff("close", NormalClosure, "", <<>>, <<>>)>>
\* Variant that hands the fetch a signature other than the message's.
AcceptEffectsOtherSigMut(signature) ==
    <<Eff("close", NormalClosure, "", <<>>, <<>>),
      Eff("fetchTransactionDetails", 0, "SIG1", <<>>, <<>>)>>
AcceptEffects(signature) ==
    <<Eff("close", NormalClosure, "", <<>>, <<>>),
      Eff("fetchTransactionDetails", 0, signature, <<>>, <<>>)>>

\* index.ts:194-200, the catch of the message handler: ws.close() without
\* a code, then the retry timer.
CatchEffects ==
    <<Eff("close", NoStatus, "", <<>>, <<>>),
      Eff("setTimeout", ReconnectDelay, "", <<>>, <<>>)>>

\* index.ts:163-201, up to the first await.  The ws library keeps emitting
\* "message" for frames that arrive while the closing handshake is pending.
OnMessage(c, k) ==
    LET m == Msgs[k]
        received == <<Eff("message", k, c.st, <<>>, <<>>)>>
        closed == WsClose(c, NormalClosure) IN
    /\ c.st \in {"open", "closing"}
    /\ budget > 0
    /\ budget' = budget - 1
    /\ IF JSONParseThrows(m)
       THEN /\ conns' = Replace(conns, c, WsClose(c, NoStatus))
            /\ timers' = timers + 1
            /\ trace' = received \o CatchEffects
       ELSE IF ~ Classify(m)
       THEN /\ trace' = received
            /\ UNCHANGED <<conns, timers>>
       ELSE /\ conns' = Replace(conns, c, [closed EXCEPT !.runs = @ (+) One(NewRun)])
            /\ timers' = timers
            /\ trace' = received \o AcceptEffects(m.signature.v)
    /\ UNCHANGED <<wsUrlOk, privKey>>

\* index.ts:189-200: the message handler resumes when handleNewPool has
\* settled.  Fulfilled: it calls websocketHandler.  Rejected: its catch
\* closes the socket and arms the timer.
Advance(c, r, res) ==
    LET rest == [c EXCEPT !.runs = @ (-) One(r)]
        resolved == <<Eff("resolved", 0, res.outcome, <<>>, <<>>)>> IN
    IF res.kind = "await"
    THEN /\ conns' = Replace(conns, c, [rest EXCEPT !.runs = @ (+) One(res.run)])
         /\ trace' = res.effs
         /\ timers' = timers
    ELSE IF ~ HandleNewPoolRejects(res.threw)
    THEN /\ conns' = WsHandlerConns(Replace(conns, c, rest))
         /\ timers' = WsHandlerTimers(timers)
         /\ trace' = res.effs \o resolved \o WsHandlerTrace
    ELSE /\ conns' = Replace(conns, c, WsClose(rest, NoStatus))
         /\ timers' = timers + 1
         /\ trace' = res.effs \o resolved \o CatchEffects

\* The details provider answers (or the request fails).
FetchSettles(c, r, resp) ==
    /\ r.stage = "fetch" /\ ~ r.stalled
    /\ LET d == fetchTransactionDetails(resp) IN
       Advance(c, r, Heard(<<EffR("fetchResult", resp),
                             Returns("fetchTransactionDetails",
                                     IF d.null THEN "null" ELSE "details")>>,
                           AfterFetch(r, d)))
    /\ UNCHANGED <<wsUrlOk, privKey, budget>>

\* The risk provider answers (or the request fails).
RugSettles(c, r, resp) ==
    /\ r.stage = "rug" /\ ~ r.stalled
    /\ LET passed == getRugCheckConfirmed(resp) IN
       Advance(c, r, Heard(<<EffR("rugResult", resp),
                             Returns("getRugCheckConfirmed",
                                     IF passed THEN "true" ELSE "false")>>,
                           AfterRug(r, passed)))
    /\ UNCHANGED <<wsUrlOk, privKey, budget>>

\* The quote, swap or RPC call that createSwapTransactions awaits settles.
SwapCallSettles(c, r, ans) ==
    /\ ~ r.stalled
    /\ ans \in Answers(r.stage)
    /\ Advance(c, r, Heard(<<EffR("answer", [kind |-> ans, stage |-> r.stage])>>,
                           AfterSwapCall(r, ans)))
    /\ UNCHANGED <<wsUrlOk, privKey, budget>>

\* The provider of the awaited call goes silent: it will never answer.
ProviderStalls(c, r) ==
    /\ ~ r.stalled
    /\ conns' = Replace(conns, c, [c EXCEPT !.runs = (@ (-) One(r)) (+) One([r EXCEPT !.stalled = TRUE])])
    /\ trace' = <<Eff("stall", 0, r.stage, <<>>, <<>>)>>
    /\ UNCHANGED <<wsUrlOk, privKey, timers, budget>>

\* The timeout of the awaited call expires: the call fails.
CallTimesOut(c, r) ==
    /\ CallTimeout(r.stage) > 0
    /\ Advance(c, r, Heard(<<EffR("answer", [kind |-> "timeout", stage |-> r.stage])>>,
                 CASE r.stage = "fetch" ->
                        AfterFetch(r, fetchTransactionDetails(FetchResp("error", NoMint, NoMint)))
                   [] r.stage = "rug" ->
                        AfterRug(r, getRugCheckConfirmed(RugResp("error", FALSE, 0, {})))
                   [] OTHER -> AfterSwapCall(r, "error")))
    /\ UNCHANGED <<wsUrlOk, privKey, budget>>

Next ==
    \/ TimerFires
    \/ \E c \in Conns : OnOpen(c)
    \/ \E c \in Conns, k \in MsgIds : OnMessage(c, k)
    \/ \E c \in Conns : OnError(c)
    \/ \E c \in Conns, code \in CloseCodes : OnClose(c, code)
    \/ \E c \in Conns : \E r \in RunsOf(c), resp \in FetchResponses : FetchSettles(c, r, resp)
    \/ \E c \in Conns : \E r \in RunsOf(c), resp \in RugResponses : RugSettles(c, r, resp)
    \/ \E c \in Conns : \E r \in RunsOf(c) : \E ans \in Answers(r.stage) : SwapCallSettles(c, r, ans)
    \/ \E c \in Conns : \E r \in RunsOf(c) : ProviderStalls(c, r)
    \/ \E c \in Conns : \E r \in RunsOf(c) : CallTimesOut(c, r)

Spec == Init /\ [][Next]_vars

\* Shape of the state: counters in range, no garbage socket kept.
TypeOK ==
    /\ timers \in 0..(2 * MsgBudget + 1)
    /\ budget \in 0..MsgBudget
    /\ \A c \in Conns : c.st \in {"connecting", "open", "closing", "aborting", "failing", "closed"}
    /\ \A c \in Conns : ~ Garbage(c) /\ conns[c] > 0


\* ------------------------------------------------------------- fairness
\* The event loop runs every callback that is due: a timer that was armed
\* fires, a handshake ends in "open" or "error", a closing or destroyed
\* socket emits "close", a provider that has not gone silent answers, and
\* a timeout that was set expires.
InitLive == InitWith(LiveBudget)

HandshakeEnds == \E c \in Conns : c.st = "connecting" /\ (OnOpen(c) \/ OnError(c))
CloseArrives ==
    \E c \in Conns, code \in CloseCodes :
        c.st \in {"closing", "aborting", "failing"} /\ OnClose(c, code)
ProviderAnswers ==
    \E c \in Conns : \E r \in RunsOf(c) :
        \/ \E resp \in FetchResponses : FetchSettles(c, r, resp)
        \/ \E resp \in RugResponses : RugSettles(c, r, resp)
        \/ \E ans \in Answers(r.stage) : SwapCallSettles(c, r, ans)
TimeoutExpires == \E c \in Conns : \E r \in RunsOf(c) : CallTimesOut(c, r)

Fairness ==
    /\ WF_vars(TimerFires)
    /\ WF_vars(HandshakeEnds)
    /\ WF_vars(CloseArrives)
    /\ WF_vars(ProviderAnswers)
    /\ WF_vars(TimeoutExpires)

FairSpec == InitLive /\ [][Next]_vars /\ Fairness

\* ------------------------------------------------------ reading the trace
Has(op) == \E i \in DOMAIN trace : trace[i].op = op
Before(opA, nA, opB) ==
    \A j \in DOMAIN trace :
        trace[j].op = opB => \E i \in 1..(j - 1) : trace[i].op = opA /\ trace[i].n = nA
\* The callback that ran last was the message handler, for frame TheMsg.
MsgStep == trace[1].op = "message"
TheMsg == Msgs[trace[1].n]
NumConnecting == IF NewConn \in DOMAIN conns THEN conns[NewConn] ELSE 0

\* ------------------------------------------------------------------ C1
\* C1: in every reachable state at most one handleNewPool call is in
\* flight, whatever messages arrive after a candidate was accepted.
SinglePipeline == NumRuns <= 1

\* ------------------------------------------------------------------ C2
\* C2: in every reachable state there is at most one live socket
\* (connecting or open) and at most one pending reconnect timer.
SingleConnection == NumLive <= 1 /\ timers <= 1

\* ------------------------------------------------------------------ C3
\* C3: the loop never strands: the system is never left with no socket,
\* no pending reconnect and no running pipeline.
NeverStranded == ~ (conns = EmptyBag /\ timers = 0)

\* ------------------------------------------------------------------ C4
\* C4: the step in which a pipeline run resolves, with whatever outcome,
\* calls websocketHandler, which starts a new connection attempt (or, when
\* the constructor throws, arms the retry timer).
ResolveReconnects ==
    [][NumRuns' < NumRuns =>
        /\ \E i \in DOMAIN trace' :
              /\ trace'[i].op = "resolved"
              /\ i < Len(trace')
              /\ trace'[i + 1].op = "websocketHandler"
        /\ IF wsUrlOk THEN NumConnecting' = NumConnecting + 1 /\ timers' = timers
                      ELSE timers' = timers + 1]_vars

\* A run that ended in an exception thrown by a stage has just resolved
\* and the handler has been called.
ResolveReconnectsWitness ==
    \E i \in DOMAIN trace :
        /\ trace[i].op = "resolved" /\ trace[i].s = "exception"
        /\ i < Len(trace) /\ trace[i + 1].op = "websocketHandler"
        /\ NumConnecting >= 1

\* ------------------------------------------------------------------ C5
\* C5: every pipeline run eventually resolves, even when a provider never
\* answers, because every outbound call is bounded by a timeout.
RunsResolve == (NumRuns > 0) ~> (NumRuns = 0)

\* ------------------------------------------------------------------ C6
\* C6: a malformed message (text that is no JSON, or JSON without the logs
\* or signature field) has no effect on the connection: the socket is not
\* closed, no reconnect is scheduled, the socket stays subscribed.
Malformed(m) == ~ m.json \/ m.logs.t = "undefined" \/ m.signature.t = "undefined"
MalformedDiscarded ==
    [][MsgStep' /\ Malformed(TheMsg') =>
        conns' = conns /\ timers' = timers /\ Len(trace') = 1]_vars

\* ------------------------------------------------------------------ C7
\* C7: a message that does not contain the marker produces no candidate,
\* does not close the socket, starts no run and leaves the socket as it was.
LacksMarker(m) == \A i \in 1..Len(m.logs.a) : ~ Includes(m.logs.a[i].s, Marker)
UnmarkedIgnored ==
    [][MsgStep' /\ LacksMarker(TheMsg') =>
        conns' = conns /\ timers' = timers /\ Len(trace') = 1]_vars

\* ------------------------------------------------------------------ C8
\* C8: the handler that accepts a message calls close(1000) on the socket
\* before it calls the details fetch, and no run is ever in flight on a
\* socket that is still connecting or open.
CloseBeforePipeline ==
    /\ Before("close", NormalClosure, "fetchTransactionDetails")
    /\ \A c \in Conns : c.runs # EmptyBag => ~ Live(c)

\* A message was just accepted on an open socket: the socket is closing
\* with the code 1000 and the fetch of its run is awaited.
CloseBeforePipelineWitness ==
    /\ MsgStep /\ trace[1].s = "open"
    /\ Has("fetchTransactionDetails")
    /\ \E c \in Conns : c.st = "closing" /\ c.req = NormalClosure /\ NewRun \in RunsOf(c)

\* ------------------------------------------------------------------ C9
\* C9: every "close" event with a code other than 1000 arms one reconnect
\* timer of 5000 ms, also for a socket whose handshake failed; and a call
\* of websocketHandler whose constructor throws arms that timer as well.
AbnormalCloseReconnects ==
    [][/\ (trace'[1].op = "closed" /\ trace'[1].n # NormalClosure) =>
            /\ timers' = timers + 1
            /\ Len(trace') = 2
            /\ trace'[2].op = "setTimeout" /\ trace'[2].n = ReconnectDelay
       /\ \A i \in DOMAIN trace' :
            (trace'[i].op = "websocketHandler" /\ ~ wsUrlOk) =>
                /\ i < Len(trace')
                /\ trace'[i + 1].op = "setTimeout" /\ trace'[i + 1].n = ReconnectDelay
                /\ timers' >= 1]_vars

\* A socket whose handshake failed has just closed and a timer is armed.
AbnormalCloseReconnectsWitness ==
    /\ trace[1].op = "closed" /\ trace[1].s = "aborting" /\ trace[1].n = Abnormal
    /\ timers >= 1

\* ----------------------------------------------------------------- C10
\* C10 as stated: a decoded message is accepted iff its logs are a
\* sequence of strings, its signature is a string and some entry contains
\* the marker.
Accepted == Has("fetchTransactionDetails")
AllStrings(logs) == logs.t = "array" /\ \A i \in 1..Len(logs.a) : logs.a[i].t = "string"
FilterStrict ==
    (MsgStep /\ TheMsg.json) =>
        (Accepted <=>
            /\ AllStrings(TheMsg.logs)
            /\ TheMsg.signature.t = "string"
            /\ \E i \in 1..Len(TheMsg.logs.a) : Includes(TheMsg.logs.a[i].s, Marker))

\* C10, amended: a decoded message is accepted iff its logs are an array,
\* its signature is a string and some entry that is a string contains the
\* marker, case-sensitively; entries that are no strings are skipped.
FilterExact ==
    (MsgStep /\ TheMsg.json) =>
        (Accepted <=>
            /\ TheMsg.logs.t = "array"
            /\ TheMsg.signature.t = "string"
            /\ \E i \in 1..Len(TheMsg.logs.a) :
                  /\ TheMsg.logs.a[i].t = "string"
                  /\ Includes(TheMsg.logs.a[i].s, Marker))

\* A message whose marker sits inside a longer log line was accepted, with
\* the signature it carries handed to the fetch.
FilterExactWitness ==
    /\ MsgStep /\ TheMsg.json
    /\ \E i \in 1..Len(TheMsg.logs.a) :
          TheMsg.logs.a[i].s # Marker /\ Includes(TheMsg.logs.a[i].s, Marker)
    /\ \E j \in DOMAIN trace :
          trace[j].op = "fetchTransactionDetails" /\ trace[j].s = TheMsg.signature.v

\* ----------------------------------------------------------------- C11
\* The acceptance rule of the filter (see C10): decoded, logs an array,
\* signature a string, some string entry containing the marker.
IsCandidate(m) ==
    /\ m.json
    /\ m.logs.t = "array"
    /\ m.signature.t = "string"
    /\ \E i \in 1..Len(m.logs.a) :
          m.logs.a[i].t = "string" /\ Includes(m.logs.a[i].s, Marker)
FetchCalls(tr) == {i \in DOMAIN tr : tr[i].op = "fetchTransactionDetails"}
Resolutions(tr) == {i \in DOMAIN tr : tr[i].op = "resolved"}

\* C11: the handler of an accepted message starts exactly one pipeline run
\* and hands it the signature of that message; runs start in no other
\* step, the fetch is called in no other step, and a run leaves only by
\* resolving, one run per resolution.
OneRunPerCandidate ==
    [][/\ (MsgStep' /\ IsCandidate(TheMsg')) =>
            /\ NumRuns' = NumRuns + 1
            /\ Cardinality(FetchCalls(trace')) = 1
            /\ \A i \in FetchCalls(trace') : trace'[i].s = TheMsg'.signature.v
       /\ ~ (MsgStep' /\ IsCandidate(TheMsg')) =>
            /\ NumRuns' <= NumRuns
            /\ FetchCalls(trace') = {}
       /\ NumRuns' < NumRuns =>
            /\ NumRuns' = NumRuns - 1
            /\ Cardinality(Resolutions(trace')) = 1
       /\ NumRuns' >= NumRuns => Resolutions(trace') = {}]_vars

\* A message carrying the second signature was just accepted while a run
\* for an earlier candidate is still in flight: both runs exist.
OneRunPerCandidateWitness ==
    /\ MsgStep /\ IsCandidate(TheMsg) /\ TheMsg.signature.v = "SIG2"
    /\ \E i \in DOMAIN trace :
          trace[i].op = "fetchTransactionDetails" /\ trace[i].s = "SIG2"
    /\ NumRuns = 2

\* ----------------------------------------------------------------- C12
\* The last four characters spell "pump" in any mix of cases.
EndsPumpAnyCase(str) ==
    LET n == Len(str) IN
    /\ n >= 4
    /\ str[n - 3] \in {"p", "P"} /\ str[n - 2] \in {"u", "U"}
    /\ str[n - 1] \in {"m", "M"} /\ str[n] \in {"p", "P"}
RiskOrSwapCalled == Has("getRugCheckConfirmed") \/ Has("createSwapTransactions")

\* C12: with the exclusion flag set, the step that receives fetched details
\* whose tokenMint ends in "pump", in any case, resolves the run as skipped
\* and calls neither the risk check nor the swap; no run past the fetch and
\* no call of either adapter ever carries such a mint.
PumpExcluded ==
    ignore_pump_fun =>
        /\ \A i \in DOMAIN trace :
              (/\ trace[i].op = "fetchResult"
               /\ trace[i].resp.kind = "data"
               /\ EndsPumpAnyCase(trace[i].resp.tokenMint.s)) =>
                    /\ ~ RiskOrSwapCalled
                    /\ \E j \in DOMAIN trace :
                          /\ trace[j].op = "resolved"
                          /\ trace[j].s \in {"pump_skipped", "missing_mints"}
        /\ \A i \in DOMAIN trace :
              /\ trace[i].op = "getRugCheckConfirmed" => ~ EndsPumpAnyCase(trace[i].a)
              /\ trace[i].op = "createSwapTransactions" => ~ EndsPumpAnyCase(trace[i].b)
        /\ \A c \in Conns : \A r \in RunsOf(c) :
              r.stage # "fetch" => ~ EndsPumpAnyCase(r.tokenMint.s)

\* The fetch returned a mint ending in "PUMP" and the run was skipped.
PumpExcludedWitness ==
    /\ \E i \in DOMAIN trace :
          /\ trace[i].op = "fetchResult"
          /\ trace[i].resp = FetchResp("data", SolMint, TokenPumpUpper)
    /\ \E j \in DOMAIN trace : trace[j].op = "resolved" /\ trace[j].s = "pump_skipped"

\* ----------------------------------------------------------------- C13
\* The four ways a risk check fails, read off the provider's response.
RiskFailed(resp) ==
    \/ resp.kind # "data"
    \/ ~ resp.success
    \/ \E w \in resp.warnings : w \in not_allowed
    \/ resp.rating > single_holder_ownership

\* C13: the step that receives a failed risk check (call failed, response
\* unsuccessful, a disallowed warning, rating above the ceiling) resolves
\* the run as rejected and does not call the swap executor.
NoSwapAfterFailedRisk ==
    \A i \in DOMAIN trace :
        (trace[i].op = "rugResult" /\ RiskFailed(trace[i].resp)) =>
            /\ ~ Has("createSwapTransactions")
            /\ ~ Has("quote")
            /\ \E j \in DOMAIN trace :
                  trace[j].op = "resolved" /\ trace[j].s = "rug_failed"

\* A response that is successful and below the ceiling but carries a
\* disallowed warning has just ended the run.
NoSwapAfterFailedRiskWitness ==
    /\ \E i \in DOMAIN trace :
          /\ trace[i].op = "rugResult"
          /\ trace[i].resp = RugResp("data", TRUE, 5, {"Copycat token"})
    /\ \E j \in DOMAIN trace : trace[j].op = "resolved" /\ trace[j].s = "rug_failed"

\* ----------------------------------------------------------------- C14
Absent(mint) == mint.t # "string" \/ Len(mint.s) = 0
FetchUsable(resp) ==
    resp.kind = "data" /\ ~ Absent(resp.solMint) /\ ~ Absent(resp.tokenMint)

\* C14: the step that receives a failed fetch, or details in which a mint
\* is absent, resolves the run and calls neither the risk check nor the
\* swap; every call of the risk check follows, in the same step, a fetch
\* result that carries both mints, and is given the token mint of that
\* result.
RiskNeedsBothMints ==
    /\ \A i \in DOMAIN trace :
          (trace[i].op = "fetchResult" /\ ~ FetchUsable(trace[i].resp)) =>
              /\ ~ RiskOrSwapCalled
              /\ \E j \in DOMAIN trace :
                    /\ trace[j].op = "resolved"
                    /\ trace[j].s = IF trace[i].resp.kind = "data"
                                    THEN "missing_mints" ELSE "fetch_failed"
    /\ \A j \in DOMAIN trace :
          trace[j].op = "getRugCheckConfirmed" =>
              \E i \in 1..(j - 1) :
                  /\ trace[i].op = "fetchResult"
                  /\ FetchUsable(trace[i].resp)
                  /\ trace[j].a = trace[i].resp.tokenMint.s
    /\ \A c \in Conns : \A r \in RunsOf(c) :
          r.stage # "fetch" => ~ Absent(r.solMint) /\ ~ Absent(r.tokenMint)

\* Details without a token mint have just ended a run, and so has a fetch
\* that failed.
RiskNeedsBothMintsWitness ==
    \E i \in DOMAIN trace :
        /\ trace[i].op = "fetchResult"
        /\ trace[i].resp = FetchResp("data", SolMint, NoMint)
        /\ \E j \in DOMAIN trace : trace[j].op = "resolved" /\ trace[j].s = "missing_mints"

\* ----------------------------------------------------------------- C15
SwapCalls(tr) == {i \in DOMAIN tr : tr[i].op = "createSwapTransactions"}
SwapEnds(tr) ==
    {i \in DOMAIN tr : tr[i].op \in {"return", "throw"} /\ tr[i].a = <<"createSwapTransactions">>}
\* The outcome handleNewPool reports for what the executor ended with.
OutcomeOf(end) ==
    CASE end.op = "throw" -> "exception"
      [] end.op = "return" /\ end.s = "url" -> "swap_ok"
      [] OTHER -> "swap_failed"

\* C15: details with both mints and a token mint that is not excluded are
\* kept by the run; the step that receives a passed risk check calls the
\* swap executor once, with (solMint, tokenMint) of the details the run
\* kept; the executor is called in no other step; and when the executor
\* ends, the run resolves at once with the outcome the executor ended with.
SwapOncePerEligible ==
    [][/\ \A i \in DOMAIN trace' :
            (/\ trace'[i].op = "fetchResult"
             /\ FetchUsable(trace'[i].resp)
             /\ ~ EndsPumpAnyCase(trace'[i].resp.tokenMint.s)) =>
                \E c \in {d \in DOMAIN conns' : conns'[d] > 0} : \E r \in RunsOf(c) :
                    /\ r.stage = "rug"
                    /\ r.solMint = trace'[i].resp.solMint
                    /\ r.tokenMint = trace'[i].resp.tokenMint
       /\ \A i \in DOMAIN trace' :
            (trace'[i].op = "rugResult" /\ ~ RiskFailed(trace'[i].resp)) =>
                /\ Cardinality(SwapCalls(trace')) = 1
                /\ \A k \in SwapCalls(trace') :
                      /\ k > i
                      /\ \E c \in Conns : \E r \in RunsOf(c) :
                            /\ r.stage = "rug"
                            /\ trace'[k].a = r.solMint.s
                            /\ trace'[k].b = r.tokenMint.s
       /\ SwapCalls(trace') # {} =>
            \E i \in DOMAIN trace' :
                trace'[i].op = "rugResult" /\ ~ RiskFailed(trace'[i].resp)
       /\ \A k \in SwapEnds(trace') :
            /\ k < Len(trace')
            /\ trace'[k + 1].op = "resolved"
            /\ trace'[k + 1].s = OutcomeOf(trace'[k])
       /\ \A j \in Resolutions(trace') :
            trace'[j].s \in {"swap_ok", "swap_failed", "exception"} =>
                (j - 1) \in SwapEnds(trace')]_vars

\* The executor was just called with the two mints of the fetched details,
\* on a risk check that passed at the ceiling.
SwapOncePerEligibleWitness ==
    /\ \E i \in DOMAIN trace :
          /\ trace[i].op = "rugResult"
          /\ trace[i].resp = RugResp("data", TRUE, single_holder_ownership, {})
    /\ \E k \in DOMAIN trace :
          /\ trace[k].op = "createSwapTransactions"
          /\ trace[k].a = SolMint.s /\ trace[k].b = TokenPlain.s
    /\ Has("quote")

\* ----------------------------------------------------------------- C16
\* The answer with which each awaited step of the executor succeeds.
StepSucceeded(resp) ==
    \/ resp.stage = "quote" /\ resp.kind = "data"
    \/ resp.stage = "swap" /\ resp.kind = "tx"
    \/ resp.stage = "blockhash" /\ resp.kind = "ok"
    \/ resp.stage = "send" /\ resp.kind = "txid"
    \/ resp.stage = "confirm" /\ resp.kind = "ok"
SwapAnswers(tr) ==
    {i \in DOMAIN tr : tr[i].op = "answer" /\ tr[i].resp.stage \notin {"fetch", "rug"}}

\* C16: the executor ends with a reference exactly in the step in which
\* its last call, the confirmation, reports no error, all earlier steps
\* having succeeded; a step that fails ends it with an absent reference;
\* and it never ends in any other way than by returning one of the two.
ReferenceIffAllSteps ==
    /\ \A k \in SwapEnds(trace) :
          /\ trace[k].op = "return"
          /\ trace[k].s \in {"url", "null"}
          /\ trace[k].s = "url" <=>
                \E i \in SwapAnswers(trace) :
                    trace[i].resp = [kind |-> "ok", stage |-> "confirm"]
    /\ \A i \in SwapAnswers(trace) :
          IF StepSucceeded(trace[i].resp)
          THEN trace[i].resp.stage # "confirm" => SwapEnds(trace) = {}
          ELSE \E k \in SwapEnds(trace) : trace[k].op = "return" /\ trace[k].s = "null"

\* ----------------------------------------------------------------- C17
Returned(adapter, value) == \E k \in DOMAIN trace : trace[k] = Returns(adapter, value)

\* C17: no adapter ever ends by throwing; a failed call of the details
\* fetch ends it with null, a failed call of the risk check with false, a
\* failed call of the executor with null, and so does a wallet key that
\* cannot be decoded.
AdaptersNeverThrow ==
    /\ \A i \in DOMAIN trace : trace[i].op # "throw"
    /\ \A i \in DOMAIN trace :
          /\ (trace[i].op = "fetchResult" /\ trace[i].resp.kind # "data") =>
                Returned("fetchTransactionDetails", "null")
          /\ (trace[i].op = "rugResult" /\ trace[i].resp.kind # "data") =>
                Returned("getRugCheckConfirmed", "false")
          /\ (i \in SwapAnswers(trace) /\ ~ StepSucceeded(trace[i].resp)) =>
                Returned("createSwapTransactions", "null")
          /\ (trace[i].op = "createSwapTransactions" /\ privKey # "valid") =>
                Returned("createSwapTransactions", "null")

\* ----------------------------------------------------------------- C18
Sends(tr) == {i \in DOMAIN tr : tr[i].op = "send"}
NumOpen == LET c == [NewConn EXCEPT !.st = "open"] IN
           IF c \in DOMAIN conns THEN conns[c] ELSE 0

\* C18: the "open" event of a socket, which takes it from connecting to
\* open, sends one logsSubscribe request and nothing else; no other step
\* sends a request, so a socket that never opened, or that is closing or
\* closed, sends none, and a socket, which opens at most once, never sends
\* a second one.
SubscribeOnOpenOnly ==
    [][/\ trace'[1].op = "open" =>
            /\ Cardinality(Sends(trace')) = 1
            /\ trace'[2].op = "send" /\ trace'[2].s = "logsSubscribe"
            /\ NumConnecting' = NumConnecting - 1
            /\ NumOpen' = NumOpen + 1
       /\ trace'[1].op # "open" =>
            /\ Sends(trace') = {}
            /\ NumOpen' <= NumOpen]_vars

\* A socket made by a reconnect, after messages were handled on an earlier
\* one, has just opened and sent its request.
SubscribeOnOpenOnlyWitness ==
    /\ trace[1].op = "open" /\ Len(trace) = 2 /\ trace[2].op = "send"
    /\ NumOpen = 1
    /\ budget < MsgBudget

\* ----------------------------------------------------------------- C20
AdapterOps ==
    {"fetchTransactionDetails", "getRugCheckConfirmed", "createSwapTransactions",
     "quote", "swap", "sign", "getLatestBlockhash", "sendRawTransaction",
     "confirmTransaction"}
AdapterInvoked(tr) == \E i \in DOMAIN tr : tr[i].op \in AdapterOps

\* C20: no step changes the wallet key or the endpoint configuration; and
\* from a state without a pipeline run, a step that does not accept a
\* message (an open, error or close event, a reconnect timer, a rejected
\* or undecodable message) starts no run and calls none of the adapters.
\* As the program starts without a run, connection cycles in which no
\* message is accepted never call an adapter.
IdleCyclesTouchNothing ==
    [][/\ privKey' = privKey
       /\ wsUrlOk' = wsUrlOk
       /\ (NumRuns = 0 /\ ~ (MsgStep' /\ IsCandidate(TheMsg'))) =>
            /\ NumRuns' = 0
            /\ ~ AdapterInvoked(trace')]_vars

\* No message was delivered at all, a socket was lost, and the reconnect
\* timer has just made the next socket.
IdleCyclesTouchNothingWitness ==
    /\ trace[1].op = "timer"
    /\ budget = MsgBudget
    /\ NumRuns = 0
    /\ NumConnecting = 1
    /\ ~ AdapterInvoked(trace)

\* ----------------------------------------------------------------- C21
\* The four conditions of a pass, read off the provider's response.
RiskPasses(resp) ==
    /\ resp.kind = "data"
    /\ resp.success
    /\ \A w \in resp.warnings : w \notin not_allowed
    /\ resp.rating <= single_holder_ownership

CloseEventOf(c) ==
    /\ trace'[1].op = "closed"
    /\ trace'[1].s = c.st
    /\ conns' = Replace(conns, c, [c EXCEPT !.st = "closed"])
HandlerCalls(tr) == {i \in DOMAIN tr : tr[i].op = "websocketHandler"}

\* C22: a "close" event with the code 1000 arms no reconnect timer; the
\* "close" event of a socket the handler closed with close(1000) on
\* accepting a candidate arms none either; and the step in which a run
\* resolves calls websocketHandler once.  So one connection attempt, the
\* one made on resolution, follows an accepted candidate.
OneAttemptPerCandidate ==
    [][/\ (trace'[1].op = "closed" /\ trace'[1].n = NormalClosure) =>
            timers' = timers /\ Len(trace') = 1
       /\ \A c \in Conns :
            (c.req = NormalClosure /\ CloseEventOf(c)) =>
                timers' = timers /\ Len(trace') = 1
       /\ Resolutions(trace') # {} =>
            Cardinality(HandlerCalls(trace')) = 1]_vars

\* ----------------------------------------------------------------- C23
\* createSwapTransactions reads PRIV_KEY_WALLET itself (transactions.ts:40)
\* and tests it (42-45): the executor under every key, the empty one
\* included.
InitAnyKey ==
    /\ wsUrlOk \in BOOLEAN
    /\ privKey \in {"", "valid", "undecodable"}
    /\ conns = WsHandlerConns(EmptyBag)
    /\ timers = WsHandlerTimers(0)
    /\ budget = MsgBudget
    /\ trace = WsHandlerTrace
AnyKeySpec == InitAnyKey /\ [][Next]_vars

ExternalCalls ==
    {"quote", "swap", "getLatestBlockhash", "sendRawTransaction", "confirmTransaction"}
SwapStages == {"quote", "swap", "blockhash", "send", "confirm"}
Count(op) == Cardinality({i \in DOMAIN trace : trace[i].op = op})
\* The call `op` is made in the step that received `kind` from `stage`.
OnlyAfter(op, stage, kind) ==
    Has(op) => trace[1].op = "answer" /\ trace[1].resp = [kind |-> kind, stage |-> stage]

\* C23: the executor makes each call only in the step that received the
\* success of the call before it: the quote on being called with a key it
\* could decode, the swap call on quote data, the signature and then the
\* blockhash call on a transaction payload, the submission on the
\* blockhash, the confirmation on the submission; a step submits at most
\* once and none submits after the submission was answered; and with an
\* empty key the executor returns null at once and no external call is
\* ever made.
SwapStepsInOrder ==
    /\ Has("quote") =>
          /\ privKey = "valid"
          /\ \E i \in DOMAIN trace :
                /\ trace[i].op = "createSwapTransactions"
                /\ i < Len(trace) /\ trace[i + 1].op = "quote"
    /\ OnlyAfter("swap", "quote", "data")
    /\ OnlyAfter("sign", "swap", "tx")
    /\ OnlyAfter("getLatestBlockhash", "swap", "tx")
    /\ Has("getLatestBlockhash") => Before("sign", 0, "getLatestBlockhash")
    /\ OnlyAfter("sendRawTransaction", "blockhash", "ok")
    /\ OnlyAfter("confirmTransaction", "send", "txid")
    /\ \A op \in ExternalCalls \cup {"sign"} : Count(op) <= 1
    /\ privKey = "" =>
          /\ \A op \in ExternalCalls \cup {"sign"} : ~ Has(op)
          /\ \A c \in Conns : \A r \in RunsOf(c) : r.stage \notin SwapStages
          /\ \A i \in SwapCalls(trace) :
                i < Len(trace) /\ trace[i + 1] = Returns("createSwapTransactions", "null")

\* The submission was answered and the confirmation has just been asked
\* for: every step before it was taken, in order.
SwapStepsInOrderWitness ==
    /\ trace[1].op = "answer" /\ trace[1].resp = [kind |-> "txid", stage |-> "send"]
    /\ Len(trace) = 2 /\ trace[2].op = "confirmTransaction"
    /\ \E c \in Conns : \E r \in RunsOf(c) : r.stage = "confirm"

\* With an empty key the executor was called and returned null at once.
MissingKeyReturnsNull ==
    /\ privKey = ""
    /\ \E i \in SwapCalls(trace) :
          i < Len(trace) /\ trace[i + 1] = Returns("createSwapTransactions", "null")

====
